---- MODULE Spec2Model ----
(***************************************************************************)
(* Model of the face / hand gesture detection program:                     *)
(*   src/gesture_detector.py  GestureDetector (is_fist, is_left_hand,      *)
(*                            trigger_alert, check_alert_timeout,          *)
(*                            process_frame, cleanup)                      *)
(*   src/main.py              main (camera probing, frame loop, finally)   *)
(*                                                                         *)
(* Coordinates are normalised floats in [0,1] in the program; here they    *)
(* are integers k standing for k / Grid.  time.time() is an integer number *)
(* of seconds; successive readings never decrease.                         *)
(***************************************************************************)
EXTENDS Integers, Sequences, FiniteSets

\* ------------------------------------------------------------- bounds
\* coordinates are 0..Grid, standing for 0/Grid .. Grid/Grid
Grid == 2
\* landmark sets have 21 - MaxLenDev .. 21 + MaxLenDev points
MaxLenDev == 1
\* the clock readings of the model are 0..MaxTime
MaxTime == 5
\* seconds that may pass between two successive points of a frame's processing
MaxDelay == 3
\* face detections per frame are 0..MaxFaces
MaxFaces == 1

\* ------------------------------------------------- program constants
\* self.alert_duration = 2  # seconds
alert_duration == 2
\* max_num_hands=2
max_num_hands == 2
\* MediaPipe's hand model: the highest landmark index is_fist reads is 20
NumLandmarks == 21

VARIABLES
    pc,               \* main's position: "created", "read", "input", "exited"
    exit_path,        \* how main left: "none", "no_camera", "read_fail", ...
    cleanup_calls,    \* number of detector.cleanup() calls so far
    alert_active,     \* self.alert_active
    alert_start_time, \* self.alert_start_time
    clock,            \* the wall clock (what time.time() returns now)
    frame,            \* the provider's results for the frame of this iteration
    elapsed,          \* seconds that passed before each hand and before the timeout check
    prev,             \* alert state and clock when process_frame was entered
    detection_info,   \* the dict process_frame returned
    trace,            \* what process_frame did, in order
    last_trigger,     \* clock reading of the latest trigger_alert call, -1 before the first
    quiet,            \* the user has stopped making the gesture for good
    hand_landmarks,   \* classifier check: the landmark set given to is_fist
    verdict           \* classifier check: what is_fist did with it

vars == << pc, exit_path, cleanup_calls, alert_active, alert_start_time, clock,
           frame, elapsed, prev, detection_info, trace, last_trigger, quiet,
           hand_landmarks, verdict >>

mainVars == << pc, exit_path, cleanup_calls, alert_active, alert_start_time, clock,
               frame, elapsed, prev, detection_info, trace, last_trigger, quiet >>

\* ------------------------------------------------------ landmark sets
Coord == 0..Grid
Mid == Grid \div 2

\* landmarks[i] of the program (0-based) is lm[i + 1]
Landmark(lm, i) == lm[i + 1]

\* landmarks[i] raises IndexError when i is past the end
InRange(lm, i) == i + 1 <= Len(lm)

\* A landmark set of n points: tips of index/middle/ring/pinky at y = tipsY[k],
\* their PIP joints at y = Mid, thumb tip / thumb MCP / index MCP at x = tx, mx, ix,
\* the wrist at x = wx, every other coordinate at Mid.
MakeHand(n, tipsY, tx, mx, ix, wx) ==
    [ j \in 1..n |->
        LET i == j - 1 IN
        [ x |-> CASE i = 0 -> wx
                  [] i = 2 -> mx
                  [] i = 4 -> tx
                  [] i = 5 -> ix
                  [] OTHER -> Mid,
          y |-> CASE i = 8  -> tipsY[1]
                  [] i = 12 -> tipsY[2]
                  [] i = 16 -> tipsY[3]
                  [] i = 20 -> tipsY[4]
                  [] OTHER -> Mid ] ]

\* ---------------------------------------------------------- is_fist
finger_tips == << 8, 12, 16, 20 >>
finger_pips == << 6, 10, 14, 18 >>

Abs(a) == IF a < 0 THEN -a ELSE a

\* the indices is_fist reads, in the order it reads them
FistReads == << 8, 6, 12, 10, 16, 14, 20, 18, 4, 3, 2, 5 >>

\* for tip, pip in zip(finger_tips, finger_pips): if landmarks[tip].y > landmarks[pip].y
RECURSIVE CountCurled(_, _)
CountCurled(lm, k) ==
    IF k > Len(finger_tips) THEN 0
    ELSE (IF Landmark(lm, finger_tips[k]).y > Landmark(lm, finger_pips[k]).y THEN 1 ELSE 0)
         + CountCurled(lm, k + 1)

ThumbCurled(lm) ==
    Abs(Landmark(lm, 4).x - Landmark(lm, 2).x) < Abs(Landmark(lm, 5).x - Landmark(lm, 2).x)

\* mutant: all four fingers must be curled
FistRuleAllFour(lm) == CountCurled(lm, 1) >= 4 /\ ThumbCurled(lm)

\* return fingers_curled >= 3 and thumb_curled
FistRule(lm) == CountCurled(lm, 1) >= 3 /\ ThumbCurled(lm)

\* is_fist: "IndexError" when a read is past the end, else "True" / "False"
is_fist(lm) ==
    IF \E k \in 1..Len(FistReads) : ~InRange(lm, FistReads[k]) THEN "IndexError"
    ELSE IF FistRule(lm) THEN "True" ELSE "False"

\* is_left_hand: wrist.x < 0.5
is_left_hand(lm) == 2 * Landmark(lm, 0).x < Grid

\* ------------------------------------------------ classifier check
ClassifierHands ==
    { MakeHand(n, tipsY, tx, mx, ix, Mid) :
        n \in (NumLandmarks - MaxLenDev)..(NumLandmarks + MaxLenDev),
        tipsY \in [1..4 -> Coord], tx \in Coord, mx \in Coord, ix \in Coord }

NoFrame == [ multi_hand_landmarks |-> << >>, multi_handedness |-> << >>, detections |-> 0 ]
NoInfo == [ faces_detected |-> 0, hands_detected |-> 0, left_fist_detected |-> FALSE ]
NoPrev == [ alert_active |-> FALSE, alert_start_time |-> 0, clock |-> 0 ]

\* GestureDetector.__init__ and the state of main right after it
InitMain ==
    /\ pc = "created"
    /\ exit_path = "none"
    /\ cleanup_calls = 0
    /\ alert_active = FALSE
    /\ alert_start_time = 0
    /\ clock = 0
    /\ frame = NoFrame
    /\ elapsed = << >>
    /\ prev = NoPrev
    /\ detection_info = NoInfo
    /\ trace = << >>
    /\ last_trigger = -1
    /\ quiet = FALSE

InitClassifier ==
    /\ InitMain
    /\ hand_landmarks \in ClassifierHands
    /\ verdict = "none"

Classify ==
    /\ verdict = "none"
    /\ verdict' = is_fist(hand_landmarks)
    /\ UNCHANGED << mainVars, hand_landmarks >>

NextClassifier == Classify

SpecClassifier == InitClassifier /\ [][NextClassifier]_vars

\* ------------------------------------------------------ alert state
\* mutant: a trigger while the alert is already active keeps the old start time
trigger_alert_keep_start(self, now) ==
    [ alert_active |-> TRUE,
      alert_start_time |-> IF self.alert_active THEN self.alert_start_time ELSE now ]

\* trigger_alert: self.alert_active = True; self.alert_start_time = time.time()
trigger_alert(self, now) ==
    [ alert_active |-> TRUE, alert_start_time |-> now ]

\* mutant: the operands of the subtraction are swapped, the alert never ends
check_alert_timeout_swapped(self, now) ==
    IF self.alert_active /\ self.alert_start_time - now > alert_duration
    THEN [ self EXCEPT !.alert_active = FALSE ]
    ELSE self

\* mutant: the alert ends as soon as the duration is reached (>= instead of >)
check_alert_timeout_ge(self, now) ==
    IF self.alert_active /\ now - self.alert_start_time >= alert_duration
    THEN [ self EXCEPT !.alert_active = FALSE ]
    ELSE self

\* check_alert_timeout: if self.alert_active: if time.time() - start > duration
check_alert_timeout(self, now) ==
    IF self.alert_active /\ now - self.alert_start_time > alert_duration
    THEN [ self EXCEPT !.alert_active = FALSE ]
    ELSE self

\* ---------------------------------------------------- process_frame
\* mutant: the position heuristic decides instead of the provider's label
TriggerConditionByPosition(hand_label, fist, is_left) == is_left /\ fist

\* mutant: the label is not looked at, any fist triggers
TriggerConditionAnyFist(hand_label, fist, is_left) == fist

\* if hand_label == "Left" and is_fist:
TriggerCondition(hand_label, fist, is_left) == hand_label = "Left" /\ fist

\* The body of "for idx, hand_landmarks in enumerate(...)" for hand idx; d seconds
\* pass while the hand is drawn and classified.
HandStep(st, fr, idx, d) ==
    LET now == st.now + d
        lm == fr.multi_hand_landmarks[idx]
        fist == is_fist(lm) = "True"
        is_left == is_left_hand(lm)
        classified == [ st EXCEPT !.now = now,
                                  !.trace = Append(st.trace, << "is_fist", idx >>) ]
    IN  IF Len(fr.multi_handedness) > 0
           /\ TriggerCondition(fr.multi_handedness[idx], fist, is_left)
        THEN [ classified EXCEPT
                 !.info = [ st.info EXCEPT !.left_fist_detected = TRUE ],
                 !.self = trigger_alert(st.self, now),
                 !.trace = Append(classified.trace, << "trigger", idx, now >>) ]
        ELSE classified

RECURSIVE HandLoop(_, _, _, _)
HandLoop(st, fr, ds, idx) ==
    IF idx > Len(fr.multi_hand_landmarks) THEN st
    ELSE HandLoop(HandStep(st, fr, idx, ds[idx]), fr, ds, idx + 1)

\* process_frame: the faces, the loop over the hands, then check_alert_timeout.
\* ds[idx] seconds pass before hand idx is classified, ds[n + 1] before the check.
process_frame(self, now0, fr, ds) ==
    LET n == Len(fr.multi_hand_landmarks)
        st0 == [ self |-> self, now |-> now0,
                 info |-> [ faces_detected |-> fr.detections,
                            hands_detected |-> n,
                            left_fist_detected |-> FALSE ],
                 trace |-> << >> ]
        st1 == HandLoop(st0, fr, ds, 1)
        tcheck == st1.now + ds[n + 1]
    IN  [ st1 EXCEPT !.self = check_alert_timeout(st1.self, tcheck),
                     !.now = tcheck,
                     !.trace = Append(st1.trace, << "timeout" >>) ]

\* ------------------------------------------------- the frames tried
\* three curled fingers and a curled thumb
FistHand(wx) == MakeHand(NumLandmarks, << Grid, Grid, Grid, Mid >>, Mid, Mid, Grid, wx)
\* two curled fingers and a curled thumb
OpenHand(wx) == MakeHand(NumLandmarks, << Grid, Grid, Mid, 0 >>, Mid, Mid, Grid, wx)
\* four curled fingers, thumb stretched out
ThumbOutHand(wx) == MakeHand(NumLandmarks, << Grid, Grid, Grid, Grid >>, Grid, 0, Mid, wx)

\* the wrist on the left edge or on the right edge of the image
WristXs == { 0, Grid }
FrameHands == UNION { { FistHand(wx), OpenHand(wx), ThumbOutHand(wx) } : wx \in WristXs }
Labels == { "Left", "Right" }

\* what hands.process and face_detection.process return: up to max_num_hands
\* landmark sets, one handedness label each, and the face detections
Frames ==
    UNION { { [ multi_hand_landmarks |-> hs, multi_handedness |-> ls, detections |-> f ] :
                hs \in [1..n -> FrameHands], ls \in [1..n -> Labels], f \in 0..MaxFaces } :
            n \in 0..max_num_hands }

\* a trigger later than this leaves no room on the clock for its window to end
TriggerHorizon == MaxTime - alert_duration - 1

\* the events of a call's trace that are trigger_alert calls
Triggers(tr) == { k \in 1..Len(tr) : tr[k][1] = "trigger" }

\* the clock reading of the last trigger_alert call of a trace, else the one before
LastTrigger(tr, before) ==
    IF Triggers(tr) = {} THEN before
    ELSE tr[CHOOSE k \in Triggers(tr) : \A m \in Triggers(tr) : m <= k][3]

Self == [ alert_active |-> alert_active, alert_start_time |-> alert_start_time ]

\* ----------------------------------------------------------- main
\* the finally block: cap.release(); destroyAllWindows(); detector.cleanup()
Finally(path) ==
    /\ pc' = "exited"
    /\ exit_path' = path
    /\ cleanup_calls' = cleanup_calls + 1
    /\ frame' = NoFrame
    /\ elapsed' = << >>
    /\ prev' = NoPrev
    /\ detection_info' = NoInfo
    /\ trace' = << >>
    /\ UNCHANGED << alert_active, alert_start_time, clock, last_trigger, quiet,
                    hand_landmarks, verdict >>

\* one of the six VideoCapture attempts opens
OpenCamera ==
    /\ pc = "created"
    /\ pc' = "read"
    /\ UNCHANGED << exit_path, cleanup_calls, alert_active, alert_start_time, clock,
                    frame, elapsed, prev, detection_info, trace, last_trigger, quiet,
                    hand_landmarks, verdict >>

\* if cap is None or not cap.isOpened(): ... sys.exit(1)
CameraFail ==
    /\ pc = "created"
    /\ pc' = "exited"
    /\ exit_path' = "no_camera"
    /\ UNCHANGED << cleanup_calls, alert_active, alert_start_time, clock,
                    frame, elapsed, prev, detection_info, trace, last_trigger, quiet,
                    hand_landmarks, verdict >>

\* ret, frame = cap.read(); if not ret: break
ReadFail ==
    /\ pc = "read"
    /\ Finally("read_fail")

\* cap.read() succeeds; detector.process_frame(frame); imshow
ProcessFrameOn(frames) ==
    /\ pc = "read"
    /\ \E fr \in frames :
         \E ds \in [1..(Len(fr.multi_hand_landmarks) + 1) -> 0..MaxDelay] :
            LET r == process_frame(Self, clock, fr, ds) IN
            /\ r.now <= MaxTime
            /\ r.info.left_fist_detected => r.self.alert_start_time <= TriggerHorizon
            /\ quiet => ~r.info.left_fist_detected
            /\ pc' = "input"
            /\ frame' = fr
            /\ elapsed' = ds
            /\ prev' = [ alert_active |-> alert_active,
                         alert_start_time |-> alert_start_time,
                         clock |-> clock ]
            /\ alert_active' = r.self.alert_active
            /\ alert_start_time' = r.self.alert_start_time
            /\ clock' = r.now
            /\ detection_info' = r.info
            /\ trace' = r.trace
            /\ last_trigger' = LastTrigger(r.trace, last_trigger)
    /\ UNCHANGED << exit_path, cleanup_calls, quiet, hand_landmarks, verdict >>

ProcessFrame == ProcessFrameOn(Frames)

\* the same step on the frames with at most one hand, wrist on the left, and no face
LiveFrames ==
    { fr \in Frames :
        /\ Len(fr.multi_hand_landmarks) <= 1
        /\ fr.detections = 0
        /\ \A i \in 1..Len(fr.multi_hand_landmarks) : is_left_hand(fr.multi_hand_landmarks[i]) }

ProcessLiveFrame == ProcessFrameOn(LiveFrames)

\* waitKey, the window check, then the key: 'q' quits, 's' saves a screenshot.
\* processed_frame and detection_info are rebound by the next iteration.
HandleInput ==
    /\ pc = "input"
    /\ \E key \in { "q", "s", "none" }, visible \in BOOLEAN :
         IF ~visible THEN Finally("window")
         ELSE IF key = "q" THEN Finally("quit")
         ELSE /\ pc' = "read"
              /\ frame' = NoFrame
              /\ elapsed' = << >>
              /\ prev' = NoPrev
              /\ detection_info' = NoInfo
              /\ trace' = << >>
              /\ UNCHANGED << exit_path, cleanup_calls, alert_active, alert_start_time,
                              clock, last_trigger, quiet, hand_landmarks, verdict >>

\* except KeyboardInterrupt: ... then the finally block
Interrupt ==
    /\ pc \in { "read", "input" }
    /\ Finally("interrupt")

\* any other exception raised inside the try: the finally block runs, then it propagates
Crash ==
    /\ pc \in { "read", "input" }
    /\ Finally("exception")

\* the user stops making the gesture and does not make it again
StopGesture ==
    /\ pc \in { "read", "input" }
    /\ ~quiet
    /\ quiet' = TRUE
    /\ UNCHANGED << pc, exit_path, cleanup_calls, alert_active, alert_start_time, clock,
                    frame, elapsed, prev, detection_info, trace, last_trigger,
                    hand_landmarks, verdict >>

Init ==
    /\ InitMain
    /\ hand_landmarks = << >>
    /\ verdict = "none"

Next ==
    \/ OpenCamera
    \/ CameraFail
    \/ ReadFail
    \/ ProcessFrame
    \/ HandleInput
    \/ Interrupt
    \/ Crash

Spec == Init /\ [][Next]_vars

\* the frame loop keeps running and the clock keeps advancing
Advance == ProcessLiveFrame /\ clock' > clock
Continue == HandleInput /\ pc' = "read"

NextLive ==
    \/ OpenCamera
    \/ CameraFail
    \/ ReadFail
    \/ ProcessLiveFrame
    \/ HandleInput
    \/ Interrupt
    \/ Crash
    \/ StopGesture

LiveSpec == Init /\ [][NextLive]_vars /\ SF_vars(Advance) /\ WF_vars(Continue)

\* ================================================================ claims
\* the frame loop has just returned from process_frame
AfterFrame == pc = "input"

Hands == frame.multi_hand_landmarks
NumHands == Len(frame.multi_hand_landmarks)

\* hand idx of the frame carries the label Left and is a fist
LeftFist(idx) == frame.multi_handedness[idx] = "Left" /\ is_fist(Hands[idx]) = "True"
FrameHasLeftFist == \E idx \in 1..NumHands : LeftFist(idx)

\* the curled non-thumb fingers of a 21-point set, as (tip, pip) pairs
CurledPairs(lm) ==
    { p \in { << 8, 6 >>, << 12, 10 >>, << 16, 14 >>, << 20, 18 >> } :
        lm[p[1] + 1].y > lm[p[2] + 1].y }

ThumbInside(lm) ==
    LET a == lm[5].x - lm[3].x
        b == lm[6].x - lm[3].x
    IN  (IF a < 0 THEN -a ELSE a) < (IF b < 0 THEN -b ELSE b)

C5_SizeChecked ==
    (verdict # "none" /\ Len(hand_landmarks) # NumLandmarks) => verdict = "IndexError"

\* C2: at the end of every frame after a trigger the alert is Active when at most
\* alert_duration seconds lie between the latest trigger and the frame's timeout check,
\* and Inactive when more do; the window is counted from the latest trigger.
C2_Window ==
    (AfterFrame /\ last_trigger >= 0) =>
        (alert_active <=> clock - last_trigger <= alert_duration)

\* a frame without trigger is checked exactly alert_duration seconds after the latest
\* trigger, which was not the first clock reading, and ends Active
C2_Witness ==
    /\ AfterFrame
    /\ ~FrameHasLeftFist
    /\ alert_active
    /\ last_trigger > 0
    /\ clock - last_trigger = alert_duration

\* C3: every process_frame call whose frame holds a Left hand that is a fist returns
\* with the alert Active.
C3_TriggerFrameEndsActive ==
    (AfterFrame /\ FrameHasLeftFist) => alert_active

\* C4: left_fist_detected is true exactly when a hand of the frame is labelled Left and
\* is a fist, whatever the alert state is before or after the frame.
C4_ReportIffTrigger ==
    AfterFrame => (detection_info.left_fist_detected <=> FrameHasLeftFist)

\* the alert was Active before the frame and is Active after it, and the report is false
C4_Witness ==
    /\ AfterFrame
    /\ prev.alert_active
    /\ alert_active
    /\ NumHands > 0
    /\ ~detection_info.left_fist_detected

\* C6: when main has ended, detector.cleanup() has been called exactly once.
C6_CleanupOnce ==
    pc = "exited" => cleanup_calls = 1

\* C7: a frame without a Left-hand fist reports the hand count, the face count and no
\* left fist, leaves alert_start_time alone, and changes the alert only from Active to
\* Inactive, and only by the timeout rule.
C7_NoTriggerFrame ==
    (AfterFrame /\ ~FrameHasLeftFist) =>
        /\ detection_info = [ faces_detected |-> frame.detections,
                              hands_detected |-> NumHands,
                              left_fist_detected |-> FALSE ]
        /\ alert_start_time = prev.alert_start_time
        /\ alert_active <=>
              (prev.alert_active /\ clock - prev.alert_start_time <= alert_duration)

\* a frame with no hands at all on which the alert timed out
C7_Witness ==
    /\ AfterFrame
    /\ NumHands = 0
    /\ prev.alert_active
    /\ ~alert_active
    /\ detection_info.faces_detected = frame.detections

\* the frames that differ from fr only in the wrist x-coordinates of their hands
WristVariants(fr) ==
    { [ fr EXCEPT !.multi_hand_landmarks =
          [ i \in 1..Len(fr.multi_hand_landmarks) |->
              [ fr.multi_hand_landmarks[i] EXCEPT ![1].x = w[i] ] ] ] :
        w \in [1..Len(fr.multi_hand_landmarks) -> WristXs] }

\* C8: a frame that differs only in wrist x-coordinates, processed from the same alert
\* state at the same times, gives the same triggers, the same report and the same alert
\* state; and no hand labelled Right triggers.
C8_LabelDecides ==
    AfterFrame =>
        /\ \A f2 \in WristVariants(frame) :
              LET r == process_frame([ alert_active |-> prev.alert_active,
                                       alert_start_time |-> prev.alert_start_time ],
                                     prev.clock, f2, elapsed)
              IN  /\ r.self = Self
                  /\ r.info = detection_info
                  /\ r.trace = trace
        /\ \A k \in Triggers(trace) : frame.multi_handedness[trace[k][2]] = "Left"

\* a fist on the left half of the image, labelled Right, did not trigger
C8_Witness ==
    /\ AfterFrame
    /\ \E idx \in 1..NumHands :
          /\ frame.multi_handedness[idx] = "Right"
          /\ is_left_hand(Hands[idx])
          /\ is_fist(Hands[idx]) = "True"
    /\ ~detection_info.left_fist_detected
    /\ ~alert_active

\* C9: in a process_frame call the alert state is touched only after the last hand has
\* been classified, and at most one trigger is applied.
C9_EvaluatedOnce ==
    AfterFrame =>
        /\ Cardinality(Triggers(trace)) <= 1
        /\ \A k \in Triggers(trace) :
              \A m \in 1..Len(trace) : trace[m][1] = "is_fist" => m < k

\* C10: once no frame holds a Left-hand fist any more, and frames keep being processed
\* while the clock advances, the alert becomes Inactive; and an Inactive alert becomes
\* Active only in a frame that holds a Left-hand fist.
C10_EventuallyInactive ==
    /\ (quiet /\ pc \in { "read", "input" }) ~> (~alert_active \/ pc = "exited")
    /\ [][ (~alert_active /\ alert_active') =>
              (pc' = "input" /\ \E idx \in 1..Len(frame'.multi_hand_landmarks) :
                  /\ frame'.multi_handedness[idx] = "Left"
                  /\ is_fist(frame'.multi_hand_landmarks[idx]) = "True") ]_vars

\* after the gesture stopped, a frame found the alert Active and left it Inactive
C10_Witness ==
    /\ quiet
    /\ AfterFrame
    /\ prev.alert_active
    /\ ~alert_active

====
